---- MODULE Spec2Model ----
(***************************************************************************)
(* Model of the oyl RAG platform core: the two chunkers, the two           *)
(* retrieval paths, document ingestion (process_document and the batch     *)
(* endpoints that call it) and teammate routing (run_teammate_query).      *)
(***************************************************************************)
EXTENDS Integers, Sequences, FiniteSets, TLC

VARIABLES
    chunker,    \* one chunk_text call: inputs, loop variables, position
    retr,       \* one retrieval call: collection, query tags, k, result
    route,      \* one run_teammate_query call: teammate, config, result
    status,     \* Document.processed_status per document id
    store,      \* entries of the vector index collection
    req,        \* per worker: the request it serves and its position
    nAttempts,  \* process_document calls started so far
    content,    \* per document: number of chunks its text splits into
    latest,     \* per document: the attempt started last (0: none yet)
    tagger,     \* one tagging call: model response, max tags, tags, caller
    qry,        \* one query: its inputs, what the capabilities do, its result
    kb,         \* knowledge_bases rows and the create_knowledge_base calls
    collections \* names of the collections that exist in the vector index

vars == <<chunker, retr, route, status, store, req, nAttempts, content, latest, tagger,
          qry, kb, collections>>

otherVars == <<qry, kb, collections>>

ingestVars == <<status, store, req, nAttempts, content, latest>>

Min(a, b) == IF a < b THEN a ELSE b

Max(a, b) == IF a > b THEN a ELSE b

(***************************************************************************)
(* Chunking: rag_service.chunk_text and rag_pipeline.chunk_text            *)
(***************************************************************************)
MaxLen == 4

MaxSize == 3

Chars == {"a", "b"}

Texts == UNION {[1..n -> Chars] : n \in 0..MaxLen}

ChunkVariants == {"service", "pipeline"}

\* a slice bound as Python reads it: a negative bound counts from the end,
\* and every bound is clipped to 0..len
SliceBound(i, len) == IF i < 0 THEN Max(0, len + i) ELSE Min(i, len)

\* text[start:end] of Python, start counted from 0
Slice(text, start, end) ==
    SubSeq(text, SliceBound(start, Len(text)) + 1, SliceBound(end, Len(text)))

ChunkIdle == [variant |-> "service", text |-> <<>>, size |-> 1, overlap |-> 0,
              start |-> 0, chunks |-> <<>>, pc |-> "idle"]

\* windows followed per call: a valid configuration needs at most MaxLen
MaxWindows == MaxLen + 1

\* `settings = Settings()`: CHUNK_SIZE and CHUNK_OVERLAP are read as integers
\* and accepted whatever their values; the chunkers then run with them
LoadSettings ==
    /\ chunker.pc = "load"
    /\ chunker' = [chunker EXCEPT !.pc = "call"]
    /\ UNCHANGED <<otherVars, tagger, retr, route, ingestVars>>

\* `if not text: return []`, else `chunks = []; start = 0`
ChunkEnter ==
    /\ chunker.pc = "call"
    /\ chunker' = [chunker EXCEPT !.start = 0, !.chunks = <<>>,
                     !.pc = IF chunker.text = <<>> THEN "done" ELSE "loop"]
    /\ UNCHANGED <<otherVars, tagger, retr, route, ingestVars>>

\* ChunkLoopService with a window that never moves
ChunkLoopServiceStandingStill ==
    /\ chunker.pc = "loop"
    /\ chunker.variant = "service"
    /\ chunker.start < Len(chunker.text)
    /\ Len(chunker.chunks) < MaxWindows
    /\ LET end == chunker.start + chunker.size
       IN chunker' = [chunker EXCEPT
              !.chunks = Append(@, Slice(chunker.text, chunker.start, end))]
    /\ UNCHANGED <<otherVars, tagger, retr, route, ingestVars>>

\* one iteration of the while loop of rag_service.chunk_text
ChunkLoopService ==
    /\ chunker.pc = "loop"
    /\ chunker.variant = "service"
    /\ chunker.start < Len(chunker.text)
    /\ Len(chunker.chunks) < MaxWindows
    /\ LET end == chunker.start + chunker.size
       IN chunker' = [chunker EXCEPT
              !.chunks = Append(@, Slice(chunker.text, chunker.start, end)),
              !.start = @ + (chunker.size - chunker.overlap)]
    /\ UNCHANGED <<otherVars, tagger, retr, route, ingestVars>>

\* ChunkLoopPipeline with the window advancing by chunk_size: no overlap kept
ChunkLoopPipelineNoOverlap ==
    /\ chunker.pc = "loop"
    /\ chunker.variant = "pipeline"
    /\ chunker.start < Len(chunker.text)
    /\ Len(chunker.chunks) < MaxWindows
    /\ LET end == chunker.start + chunker.size
       IN chunker' = [chunker EXCEPT
              !.chunks = Append(@, Slice(chunker.text, chunker.start, end)),
              !.start = IF end >= Len(chunker.text) THEN @ ELSE @ + chunker.size,
              !.pc = IF end >= Len(chunker.text) THEN "done" ELSE "loop"]
    /\ UNCHANGED <<otherVars, tagger, retr, route, ingestVars>>

\* one iteration of the while loop of rag_pipeline.chunk_text
ChunkLoopPipeline ==
    /\ chunker.pc = "loop"
    /\ chunker.variant = "pipeline"
    /\ chunker.start < Len(chunker.text)
    /\ Len(chunker.chunks) < MaxWindows
    /\ LET end == chunker.start + chunker.size
       IN chunker' = [chunker EXCEPT
              !.chunks = Append(@, Slice(chunker.text, chunker.start, end)),
              !.start = IF end >= Len(chunker.text)
                        THEN @ ELSE @ + (chunker.size - chunker.overlap),
              !.pc = IF end >= Len(chunker.text) THEN "done" ELSE "loop"]
    /\ UNCHANGED <<otherVars, tagger, retr, route, ingestVars>>

\* the while condition `start < len(text)` is false: return chunks
ChunkWhileExit ==
    /\ chunker.pc = "loop"
    /\ chunker.start >= Len(chunker.text)
    /\ chunker' = [chunker EXCEPT !.pc = "done"]
    /\ UNCHANGED <<otherVars, tagger, retr, route, ingestVars>>

\* C9: every chunk is at most chunk_size long and every chunk but the last
\* is exactly chunk_size long, for both chunk_text implementations
ChunkWindowSizes ==
    chunker.pc = "done" =>
        \A i \in 1..Len(chunker.chunks) :
            /\ Len(chunker.chunks[i]) <= chunker.size
            /\ i < Len(chunker.chunks) => Len(chunker.chunks[i]) = chunker.size

\* C10: a non-empty text no longer than chunk_size comes back as the single
\* chunk [text], and the empty text as the empty list
ChunkShortTextIsOneChunk ==
    chunker.pc = "done" /\ Len(chunker.text) <= chunker.size =>
        chunker.chunks = IF chunker.text = <<>> THEN <<>> ELSE <<chunker.text>>

\* chunk[n:] of Python
DropFirst(chunk, n) == SubSeq(chunk, n + 1, Len(chunk))

RECURSIVE Stitch(_, _)
\* the first chunk followed by every later chunk without its first `overlap`
\* characters
Stitch(chunks, overlap) ==
    IF chunks = <<>> THEN <<>>
    ELSE IF Len(chunks) = 1 THEN chunks[1]
    ELSE Stitch(SubSeq(chunks, 1, Len(chunks) - 1), overlap)
             \o DropFirst(chunks[Len(chunks)], overlap)

\* C11: for 0 <= overlap < chunk_size, the first chunk followed by every
\* later chunk minus its first `overlap` characters is the text itself, for
\* both chunk_text implementations
ChunkStitchReconstructsText ==
    chunker.pc = "done" => Stitch(chunker.chunks, chunker.overlap) = chunker.text

\* a text of both characters cut into three or more overlapping chunks
StitchedOverlappingChunks ==
    /\ chunker.pc = "done"
    /\ chunker.overlap > 0
    /\ Len(chunker.chunks) >= 3
    /\ \E i, j \in DOMAIN chunker.text : chunker.text[i] # chunker.text[j]
    /\ Stitch(chunker.chunks, chunker.overlap) = chunker.text

\* C27: with 0 <= overlap < size chunk_text returns: every call reaches its
\* return, the window start grows by size - overlap (> 0) at every step that
\* stays in the loop, and the list never holds more windows than the text
\* has characters
ChunkTextTerminates ==
    /\ <>(chunker.pc = "done")
    /\ [][chunker.pc = "loop" /\ chunker'.pc = "loop" =>
            /\ chunker'.start = chunker.start + (chunker.size - chunker.overlap)
            /\ chunker'.start > chunker.start]_chunker
    /\ [](Len(chunker.chunks) <= Len(chunker.text))

\* rag_service.chunk_text returned after the window moved three times or
\* more by size - overlap, past the end of the text
ServiceLoopRanToExit ==
    /\ chunker.pc = "done"
    /\ chunker.variant = "service"
    /\ Len(chunker.chunks) >= 3
    /\ chunker.start = Len(chunker.chunks) * (chunker.size - chunker.overlap)
    /\ chunker.start >= Len(chunker.text)

\* C12: chunk_text only ever runs with 0 <= overlap < chunk_size; other
\* values are rejected when the settings are loaded
ChunkTextRunsOnlyWithValidOverlap ==
    chunker.pc \in {"call", "loop", "done"} =>
        0 <= chunker.overlap /\ chunker.overlap < chunker.size

(***************************************************************************)
(* Retrieval: retrieval_service.retrieve_chunks and RAGPipeline._retrieve  *)
(***************************************************************************)
MaxEntries == 3

MaxTopK == 3

\* a tag is a one-character string; the "tags" metadata of an indexed chunk
\* is the comma-joined string, kept here as its sequence of characters
RECURSIVE JoinTags(_)
JoinTags(tags) ==
    IF tags = <<>> THEN <<>>
    ELSE IF Len(tags) = 1 THEN <<tags[1]>>
    ELSE <<tags[1], ",">> \o JoinTags(Tail(tags))

\* raw.split(",") keeping the non-empty pieces
RECURSIVE SplitTags(_)
SplitTags(raw) ==
    IF raw = <<>> THEN <<>>
    ELSE IF raw[1] = "," THEN SplitTags(Tail(raw))
    ELSE <<raw[1]>> \o SplitTags(Tail(raw))

Range(f) == {f[i] : i \in DOMAIN f}

RECURSIVE SelectSeqBy(_, _)
\* the entries of seq, in order, that satisfy Keep (a set of entries)
SelectSeqBy(seq, keep) ==
    IF seq = <<>> THEN <<>>
    ELSE IF seq[1] \in keep THEN <<seq[1]>> \o SelectSeqBy(Tail(seq), keep)
    ELSE SelectSeqBy(Tail(seq), keep)

FirstN(seq, n) == SubSeq(seq, 1, Min(n, Len(seq)))

\* collection.query(n_results=k, where={"tags": {"$in": tag_filter}}): the k
\* nearest entries among those whose "tags" metadata string equals one of
\* the values of tag_filter; where = None keeps every entry.  coll is in
\* ascending distance order for the query at hand.
ChromaQuery(coll, k, filtered, tag_filter) ==
    IF filtered
    THEN FirstN(SelectSeqBy(coll, {e \in Range(coll) :
                    \E i \in DOMAIN tag_filter : e.tags = <<tag_filter[i]>>}), k)
    ELSE FirstN(coll, k)

\* max(0.0, 1.0 - float(dist)), distances and scores counted in tenths;
\* round(relevance, 4) changes no multiple of a tenth
Relevance(dist) == Max(0, 10 - dist)

\* retrieve_chunks(collection_name, query, top_k, tag_filter); raises says
\* whether the first (possibly filtered) collection.query call raises
RetrieveChunks(coll, tag_filter, top_k, raises) ==
    LET filtered == tag_filter # <<>>
        results == IF raises THEN ChromaQuery(coll, top_k, FALSE, <<>>)
                   ELSE ChromaQuery(coll, top_k, filtered, tag_filter)
    IN [i \in 1..Len(results) |->
            [chunk |-> results[i].chunk, tags |-> SplitTags(results[i].tags),
             relevance_score |-> Relevance(results[i].dist)]]

\* RAGPipeline._retrieve(query_text, collection_name, query_tags, n_results)
PipelineRetrieve(coll, query_tags, n_results) ==
    LET results == ChromaQuery(coll, n_results, FALSE, <<>>)
        all == [i \in 1..Len(results) |->
                   [chunk |-> results[i].chunk, tags |-> SplitTags(results[i].tags),
                    distance |-> results[i].dist]]
        kept == SelectSeqBy(all, {c \in Range(all) :
                    ~(query_tags # <<>> /\
                      ~\E q \in Range(query_tags) : q \in Range(c.tags))})
    IN IF kept = <<>> THEN all ELSE kept

RetrIdle == [variant |-> "service", coll |-> <<>>, qtags |-> <<>>, k |-> 1,
             raises |-> FALSE, result |-> <<>>, pc |-> "idle"]

\* query_teammate: tag_filter = query_tags if query_tags else None
RetrieveChunksCall ==
    /\ retr.pc = "call"
    /\ retr.variant = "service"
    /\ retr' = [retr EXCEPT !.pc = "done",
                  !.result = RetrieveChunks(retr.coll, retr.qtags, retr.k, retr.raises)]
    /\ UNCHANGED <<otherVars, tagger, chunker, route, ingestVars>>

PipelineRetrieveCall ==
    /\ retr.pc = "call"
    /\ retr.variant = "pipeline"
    /\ retr' = [retr EXCEPT !.pc = "done",
                  !.result = PipelineRetrieve(retr.coll, retr.qtags, retr.k)]
    /\ UNCHANGED <<otherVars, tagger, chunker, route, ingestVars>>

EntryTags == {<<>>, <<"x">>, <<"y">>, <<"x", "y">>}

QueryTags == {<<>>, <<"x">>, <<"z">>, <<"z", "x">>}

\* distances the index reports, in tenths: an inner-product distance can be
\* negative, an L2 or cosine distance can exceed 1
Distances == {-5, 0, 3, 15}

\* the entries of a collection in ascending distance from the query
Collections ==
    UNION {{[i \in 1..n |-> [chunk |-> i, tags |-> JoinTags(f[i]), dist |-> d[i]]] :
                f \in [1..n -> EntryTags],
                d \in {g \in [1..n -> Distances] :
                          \A i, j \in 1..n : i < j => g[i] <= g[j]}} :
           n \in 0..MaxEntries}

\* the unfiltered top-k candidates of the call in retr
UnfilteredTopK == FirstN(retr.coll, retr.k)

NoCandidateSharesATag ==
    \A i \in DOMAIN UnfilteredTopK :
        Range(SplitTags(UnfilteredTopK[i].tags)) \cap Range(retr.qtags) = {}

\* C1: when the query has tags and no unfiltered top-k candidate shares one,
\* the result is exactly what the untagged query returns (same chunks, same
\* order), hence non-empty whenever unfiltered candidates exist
RetrievalFallback ==
    retr.pc = "done" /\ retr.qtags # <<>> /\ NoCandidateSharesATag =>
        /\ retr.result = (IF retr.variant = "service"
                          THEN RetrieveChunks(retr.coll, <<>>, retr.k, FALSE)
                          ELSE PipelineRetrieve(retr.coll, <<>>, retr.k))
        /\ UnfilteredTopK # <<>> => retr.result # <<>>

\* the unfiltered top-k candidates that share a tag with the query
CandidatesSharingATag ==
    SelectSeqBy(UnfilteredTopK, {e \in Range(UnfilteredTopK) :
        Range(SplitTags(e.tags)) \cap Range(retr.qtags) # {}})

\* C25: when the query has tags and some unfiltered top-k candidate shares
\* one, the result is exactly the candidates sharing a tag, in their
\* relevance order
TagFilterKeepsSharingCandidates ==
    retr.pc = "done" /\ retr.qtags # <<>> /\ ~NoCandidateSharesATag =>
        [i \in DOMAIN retr.result |-> retr.result[i].chunk]
            = [i \in DOMAIN CandidatesSharingATag |-> CandidatesSharingATag[i].chunk]

\* C21: every chunk retrieve_chunks returns has a relevance score in [0, 1]
\* (0..10 tenths), whatever distance the index reported for it
RelevanceWithinUnitInterval ==
    retr.pc = "done" /\ retr.variant = "service" =>
        \A i \in DOMAIN retr.result :
            /\ 0 <= retr.result[i].relevance_score
            /\ retr.result[i].relevance_score <= 10

(***************************************************************************)
(* Teammate routing: orchestration_service.run_teammate_query              *)
(***************************************************************************)
MaxCreatedAt == 2

MaxPick == 2

SUPPORTED_STRATEGIES == {"weighted", "sequential", "parallel"}

\* the strategy name as it is, without str.lower()
NotLowered(s) == s

\* str.lower() on the strategy names that occur
Lower(s) ==
    CASE s = "SEQUENTIAL" -> "sequential"
      [] s = "Weighted" -> "weighted"
      [] s = "PaRaLLeL" -> "parallel"
      [] s = "ROUND_ROBIN" -> "round_robin"
      [] OTHER -> s

Missing == [kind |-> "missing", val |-> 0, str |-> <<>>]

Num(n) == [kind |-> "num", val |-> n, str |-> <<>>]

Str(cs) == [kind |-> "str", val |-> 0, str |-> cs]

\* a JSON integer beyond the range of float, such as 10**400
Huge == [kind |-> "huge", val |-> 0, str |-> <<>>]

AsciiDigits == {"0", "1", "2", "3"}

\* characters for which str.isdigit() is true: the decimal digits and also
\* digit-like characters such as SUPERSCRIPT TWO, which int() rejects
DigitChars == AsciiDigits \cup {"^2"}

DigitValue(c) == CASE c = "0" -> 0 [] c = "1" -> 1 [] c = "2" -> 2 [] c = "3" -> 3 [] OTHER -> 0

\* str(value).isdigit(): a missing key reads as "", an int prints with a
\* leading "-" when negative
IsDigit(raw) ==
    CASE raw.kind = "missing" -> FALSE
      [] raw.kind = "num" -> raw.val >= 0
      [] OTHER -> raw.str # <<>> /\ \A i \in DOMAIN raw.str : raw.str[i] \in DigitChars

\* int(value) raises ValueError on a string that is not a decimal literal
IntRaises(raw) ==
    raw.kind = "str" /\ \E i \in DOMAIN raw.str : raw.str[i] \notin AsciiDigits

RECURSIVE DecimalValue(_)
DecimalValue(cs) ==
    IF cs = <<>> THEN 0
    ELSE 10 * DecimalValue(SubSeq(cs, 1, Len(cs) - 1)) + DigitValue(cs[Len(cs)])

IntOf(raw) == IF raw.kind = "num" THEN raw.val ELSE DecimalValue(raw.str)

\* weights are kept in tenths: 1.0 is 10
DefaultWeight == 10

\* float(weight) raises OverflowError, which the except clause does not name
FloatRaises(raw) == raw.kind = "huge"

\* float(weight) with TypeError/ValueError mapped to 1.0: a number gives
\* itself, a string of decimal digits its value, None and any other string 1.0
FloatOrDefault(raw) ==
    CASE raw.kind = "num" -> raw.val
      [] raw.kind = "str" /\ raw.str # <<>>
            /\ (\A i \in DOMAIN raw.str : raw.str[i] \in AsciiDigits) ->
                10 * DecimalValue(raw.str)
      [] OTHER -> DefaultWeight

\* _assistant_order_for_teammate: sorted(teammate.assistants, key=created_at),
\* a stable ascending sort
RECURSIVE InsertByCreatedAt(_, _)
InsertByCreatedAt(sorted, a) ==
    IF sorted = <<>> THEN <<a>>
    ELSE IF a.created_at < sorted[1].created_at THEN <<a>> \o sorted
    ELSE <<sorted[1]>> \o InsertByCreatedAt(Tail(sorted), a)

\* teammate.assistants as loaded, without the sort
AssistantsAsLoaded(assistants) == assistants

RECURSIVE AssistantOrderForTeammate(_)
AssistantOrderForTeammate(assistants) ==
    IF assistants = <<>> THEN <<>>
    ELSE InsertByCreatedAt(
            AssistantOrderForTeammate(SubSeq(assistants, 1, Len(assistants) - 1)),
            assistants[Len(assistants)])

\* ResolveAssistants that keeps the ids of no assistant of the teammate
ResolveAssistantsKeepingUnknown(assistants, assistant_ids) ==
    LET ordered == AssistantOrderForTeammate(assistants)
        ids == assistant_ids.str
        known == {ordered[i].id : i \in DOMAIN ordered}
        byId(id) == IF id \in known THEN CHOOSE a \in Range(ordered) : a.id = id
                    ELSE [id |-> id, name |-> "other", created_at |-> 1]
    IN IF ids = <<>> THEN ordered
       ELSE [i \in 1..Len(ids) |-> byId(ids[i])]

\* _resolve_assistants(teammate, assistant_ids); assistant_ids is Missing for
\* None and Str(ids) for a list of ids
ResolveAssistants(assistants, assistant_ids) ==
    LET ordered == AssistantOrderForTeammate(assistants)
        ids == assistant_ids.str
        known == {ordered[i].id : i \in DOMAIN ordered}
        byId(id) == CHOOSE a \in Range(ordered) : a.id = id
        wanted == SelectSeqBy(ids, known)
    IN IF ids = <<>> THEN ordered
       ELSE [i \in 1..Len(wanted) |-> byId(wanted[i])]

\* raw_weights.get(assistant.id, raw_name_weights.get(assistant.name, 1.0))
RawWeight(config, a) ==
    LET byName == IF a.name \in DOMAIN config.weights_by_name
                  THEN config.weights_by_name[a.name] ELSE Num(DefaultWeight)
    IN IF a.id \in DOMAIN config.weights THEN config.weights[a.id] ELSE byName

\* _resolve_weights(config, assistants): id -> weight, as a function on the
\* candidates' ids
ResolveWeights(config, assistants) ==
    [id \in {assistants[i].id : i \in DOMAIN assistants} |->
        LET a == CHOOSE x \in Range(assistants) : x.id = id
            numeric == FloatOrDefault(RawWeight(config, a))
        IN IF numeric > 0 THEN numeric ELSE 0]

\* _resolve_weights leaves with the OverflowError of float(weight)
ResolveWeightsRaises(config, assistants) ==
    \E i \in DOMAIN assistants : FloatRaises(RawWeight(config, assistants[i]))

\* _build_answer: f"{assistant.name} response to: {query}"
BuildAnswer(a, query) == <<a.name, " response to: ", query>>

RECURSIVE JoinLines(_)
\* "\n".join(answers)
JoinLines(answers) ==
    IF answers = <<>> THEN <<>>
    ELSE IF Len(answers) = 1 THEN answers[1]
    ELSE answers[1] \o <<"\n">> \o JoinLines(Tail(answers))

\* _combine_answers(strategy, answers)
CombineAnswers(strategy, answers) ==
    IF answers = <<>> THEN <<"No assistant responses available">>
    ELSE IF strategy = "weighted" THEN answers[1]
    ELSE JoinLines(answers)

\* the sort key (weights.get(assistant.id, 0.0), assistant.created_at)
KeyLess(a, b, weights) ==
    \/ weights[a.id] < weights[b.id]
    \/ weights[a.id] = weights[b.id] /\ a.created_at < b.created_at

\* sorted(..., reverse=True): descending by key, equal keys keep their order
RECURSIVE InsertDescending(_, _, _)
InsertDescending(sorted, a, weights) ==
    IF sorted = <<>> THEN <<a>>
    ELSE IF KeyLess(sorted[1], a, weights) THEN <<a>> \o sorted
    ELSE <<sorted[1]>> \o InsertDescending(Tail(sorted), a, weights)

RECURSIVE SortedDescending(_, _)
SortedDescending(assistants, weights) ==
    IF assistants = <<>> THEN <<>>
    ELSE InsertDescending(
            SortedDescending(SubSeq(assistants, 1, Len(assistants) - 1), weights),
            assistants[Len(assistants)], weights)

\* _route_weighted without the sort: the first candidates as they come
RouteWeightedUnsorted(assistants, weights, max_assistants) ==
    FirstN(assistants, max_assistants)

\* _route_weighted(assistants, weights, max_assistants)
RouteWeighted(assistants, weights, max_assistants) ==
    FirstN(SortedDescending(assistants, weights), max_assistants)

\* run_teammate_query for an existing or missing teammate
RunTeammateQuery(exists, assistants, config, query) ==
    LET named == IF config.strategy = "<missing>" THEN "weighted"
                 ELSE Lower(config.strategy)
        strategy == IF named \in SUPPORTED_STRATEGIES THEN named ELSE "weighted"
        candidates == ResolveAssistants(assistants, config.assistant_ids)
        weights == ResolveWeights(config, candidates)
        max_assistants == IF IsDigit(config.max_assistants)
                          THEN IntOf(config.max_assistants) ELSE 1
        selected == IF strategy = "weighted"
                    THEN RouteWeighted(candidates, weights, Max(1, max_assistants))
                    ELSE candidates
        failed(err) == [outcome |-> err, strategy |-> strategy, candidates |-> candidates,
                        weights |-> weights, selected |-> <<>>, responses |-> <<>>,
                        result |-> <<>>]
    IN IF ~exists \/ candidates = <<>> THEN failed("NotFound")
       ELSE IF ResolveWeightsRaises(config, candidates) THEN
            [failed("OverflowError") EXCEPT !.weights = <<>>]
       ELSE IF strategy = "weighted" /\ IsDigit(config.max_assistants)
                /\ IntRaises(config.max_assistants) THEN failed("ValueError")
       ELSE [outcome |-> "ok", strategy |-> strategy, candidates |-> candidates,
             weights |-> weights,
             selected |-> [i \in 1..Len(selected) |-> selected[i].id],
             responses |-> [i \in 1..Len(selected) |->
                              [assistant_id |-> selected[i].id,
                               assistant_name |-> selected[i].name,
                               weight |-> weights[selected[i].id],
                               answer |-> BuildAnswer(selected[i], query)]],
             result |-> CombineAnswers(strategy,
                           [i \in 1..Len(selected) |-> BuildAnswer(selected[i], query)])]

RouteIdle == [exists |-> FALSE, assistants |-> <<>>, query |-> "",
              config |-> [strategy |-> "<missing>", assistant_ids |-> Missing,
                          weights |-> <<>>, weights_by_name |-> <<>>,
                          max_assistants |-> Missing],
              out |-> [outcome |-> "none"], pc |-> "idle"]

\* the request handler: one call of run_teammate_query
RunQuery ==
    /\ route.pc = "call"
    /\ route' = [route EXCEPT !.pc = "done",
                   !.out = RunTeammateQuery(route.exists, route.assistants, route.config,
                                           route.query)]
    /\ UNCHANGED <<otherVars, tagger, chunker, retr, ingestVars>>

AIds == <<"a1", "a2", "a3">>

ANames == <<"p", "q", "p">>

\* teammate.assistants in load order, for every number of assistants and
\* every assignment of creation times
Teammates ==
    UNION {{[i \in 1..n |-> [id |-> AIds[i], name |-> ANames[i], created_at |-> c[i]]] :
                c \in [1..n -> 1..MaxCreatedAt]} : n \in 0..Len(AIds)}

StrategyNames ==
    {"<missing>", "Weighted", "SEQUENTIAL", "parallel", "PaRaLLeL", "round_robin",
     "ROUND_ROBIN"}

\* "b1" is an assistant of another teammate, "zz" no assistant at all
AssistantIdLists ==
    {Missing, Str(<<>>), Str(<<"a2", "a1">>), Str(<<"a1", "a1">>), Str(<<"zz">>),
     Str(<<"b1", "a3">>)}

WeightMaps ==
    {w \in UNION {[D -> {Num(25), Num(-10), Num(0), Huge, Str(<<"x">>), Str(<<"2">>)}] :
                     D \in SUBSET Range(AIds)} :
        /\ "a1" \in DOMAIN w => w["a1"].kind \in {"num", "huge"}
        /\ "a2" \in DOMAIN w => w["a2"] = Num(25)
        /\ "a3" \in DOMAIN w => w["a3"].kind = "str"}

Queries == {"Find risks"}

NameWeightMaps ==
    {<<>>, [n \in {"p", "q"} |-> IF n = "p" THEN Num(1) ELSE Num(25)]}

MaxAssistantsValues ==
    {Missing, Num(-1), Str(<<"2">>), Str(<<"^2">>)}
        \cup {Num(n) : n \in 0..MaxPick}

\* a ranks no later than b: higher weight, or equal weight and created no later
RankedBefore(a, b, weights) ==
    \/ weights[a.id] > weights[b.id]
    \/ weights[a.id] = weights[b.id] /\ a.created_at <= b.created_at

CandidateById(id) == CHOOSE a \in Range(route.out.candidates) : a.id = id

\* the max_assistants the weighted strategy uses: the configured value when
\* it is a number, else 1, and at least 1
EffectiveMaxAssistants ==
    Max(1, IF IsDigit(route.config.max_assistants) /\ ~IntRaises(route.config.max_assistants)
           THEN IntOf(route.config.max_assistants) ELSE 1)

\* C2: the weighted selection is the first max_assistants candidates in
\* descending weight order with the earlier created candidate first among
\* equal weights
WeightedRanksEarlierFirst ==
    route.pc = "done" /\ route.out.outcome = "ok" /\ route.out.strategy = "weighted" =>
        LET sel == route.out.selected
            w == route.out.weights
        IN /\ Len(sel) = Min(EffectiveMaxAssistants, Len(route.out.candidates))
           /\ \A i, j \in DOMAIN sel :
                 i < j => RankedBefore(CandidateById(sel[i]), CandidateById(sel[j]), w)
           /\ \A c \in Range(route.out.candidates) :
                 c.id \notin Range(sel) =>
                     \A i \in DOMAIN sel : RankedBefore(CandidateById(sel[i]), c, w)

\* C3: the call ends in NotFound or in a non-empty selection; NotFound
\* exactly when no candidate is left after subset resolution
RouteNotFoundOrNonEmpty ==
    route.pc = "done" =>
        /\ route.out.outcome \in {"NotFound", "ok"}
        /\ route.out.outcome = "NotFound" <=>
              ResolveAssistants(route.assistants, route.config.assistant_ids) = <<>>
        /\ route.out.outcome = "ok" =>
              route.out.selected # <<>> /\ route.out.responses # <<>>

\* C15: weighted routing with max_assistants = 1 selects exactly one
\* assistant, and no candidate has a higher resolved weight than it
WeightedPicksMaximum ==
    /\ route.pc = "done" /\ route.out.outcome = "ok"
    /\ route.out.strategy = "weighted" /\ EffectiveMaxAssistants = 1
    => /\ Len(route.out.selected) = 1
       /\ Len(route.out.responses) = 1
       /\ route.out.responses[1].assistant_id = route.out.selected[1]
       /\ \A c \in Range(route.out.candidates) :
             route.out.weights[c.id] <= route.out.weights[route.out.selected[1]]

\* A (weight 0.1, by name) and B (weight 2.5, by name), max_assistants = 1:
\* exactly B is selected although A was created first
PickedHeavierLaterAssistant ==
    /\ route.pc = "done" /\ route.out.outcome = "ok"
    /\ route.out.strategy = "weighted"
    /\ route.config.max_assistants = Num(1)
    /\ Len(route.out.candidates) = 2
    /\ route.out.candidates[1].id = "a1" /\ route.out.weights["a1"] = 1
    /\ route.out.candidates[2].id = "a2" /\ route.out.weights["a2"] = 25
    /\ route.out.candidates[1].created_at < route.out.candidates[2].created_at
    /\ route.out.selected = <<"a2">>

\* the weight the configuration gives candidate c: the entry under its id,
\* else the entry under its name, else 1.0; 1.0 for an entry that is no
\* number; 0.0 for a number that is not positive
ConfiguredWeight(c) ==
    LET entry == IF c.id \in DOMAIN route.config.weights
                 THEN route.config.weights[c.id]
                 ELSE IF c.name \in DOMAIN route.config.weights_by_name
                 THEN route.config.weights_by_name[c.name]
                 ELSE Num(DefaultWeight)
        digits == entry.kind = "str" /\ entry.str # <<>>
                     /\ \A i \in DOMAIN entry.str : entry.str[i] \in AsciiDigits
        value == IF entry.kind = "num" THEN entry.val
                 ELSE IF digits THEN 10 * DecimalValue(entry.str)
                 ELSE DefaultWeight
    IN IF value <= 0 THEN 0 ELSE value

\* C16: every candidate gets a resolved weight: the configured one (by id,
\* else by name, else 1.0; 1.0 when not numeric; 0.0 when not positive),
\* and every resolved weight is >= 0
WeightsResolvedForEveryCandidate ==
    route.pc = "done" /\ route.out.outcome # "NotFound" =>
        /\ route.out.outcome # "OverflowError"
        /\ \A c \in Range(route.out.candidates) :
              /\ c.id \in DOMAIN route.out.weights
              /\ route.out.weights[c.id] = ConfiguredWeight(c)
              /\ route.out.weights[c.id] >= 0

RECURSIVE SplitLines(_)
\* the lines of a text: the pieces between its newline characters
SplitLines(text) ==
    IF \A i \in DOMAIN text : text[i] # "\n" THEN <<text>>
    ELSE LET k == CHOOSE i \in DOMAIN text :
                      text[i] = "\n" /\ \A j \in 1..(i - 1) : text[j] # "\n"
         IN <<SubSeq(text, 1, k - 1)>> \o SplitLines(SubSeq(text, k + 1, Len(text)))

\* C17: under sequential and parallel with no explicit subset, every
\* assistant of the teammate is selected once, in ascending creation-time
\* order; responses has one entry per selected assistant in that order,
\* carrying its id; the result is the answers joined by newlines in order
SequentialSelectsAllInOrder ==
    /\ route.pc = "done" /\ route.out.outcome = "ok"
    /\ route.out.strategy \in {"sequential", "parallel"}
    /\ route.config.assistant_ids.str = <<>>
    => LET sel == route.out.selected
           resp == route.out.responses
           created(id) == (CHOOSE a \in Range(route.assistants) : a.id = id).created_at
       IN /\ Len(sel) = Len(route.assistants)
          /\ Range(sel) = {route.assistants[i].id : i \in DOMAIN route.assistants}
          /\ \A i, j \in DOMAIN sel : i < j => created(sel[i]) <= created(sel[j])
          /\ Len(resp) = Len(sel)
          /\ \A i \in DOMAIN sel : resp[i].assistant_id = sel[i]
          /\ SplitLines(route.out.result) = [i \in DOMAIN resp |-> resp[i].answer]

\* three assistants loaded in an order that is not their creation order,
\* queried sequentially: three answers, oldest assistant first
SequentialAnsweredByThree ==
    /\ route.pc = "done" /\ route.out.outcome = "ok"
    /\ route.out.strategy = "sequential"
    /\ route.config.assistant_ids = Missing
    /\ Len(route.assistants) = 3
    /\ route.assistants[1].created_at > route.assistants[2].created_at
    /\ Len(route.out.responses) = 3
    /\ route.out.selected[1] = "a2"
    /\ Len(SplitLines(route.out.result)) = 3

\* C28: no assistant is selected twice, whatever the strategy and the
\* configured assistant_ids list
SelectedAssistantsDistinct ==
    route.pc = "done" /\ route.out.outcome = "ok" =>
        \A i, j \in DOMAIN route.out.selected :
            i # j => route.out.selected[i] # route.out.selected[j]

\* the ids of the queried teammate's assistants
OwnAssistantIds == {route.assistants[i].id : i \in DOMAIN route.assistants}

\* C29: every selected assistant and every response belongs to the queried
\* teammate; configured ids of no assistant of the teammate are ignored
SelectedBelongToTeammate ==
    route.pc = "done" /\ route.out.outcome = "ok" =>
        /\ Range(route.out.selected) \subseteq OwnAssistantIds
        /\ \A i \in DOMAIN route.out.responses :
              route.out.responses[i].assistant_id \in OwnAssistantIds

\* assistant_ids names an assistant of another teammate and then a3: only a3
\* is selected and answers
ForeignIdIgnored ==
    /\ route.pc = "done" /\ route.out.outcome = "ok"
    /\ route.config.assistant_ids = Str(<<"b1", "a3">>)
    /\ Len(route.assistants) = 3
    /\ route.out.selected = <<"a3">>
    /\ Len(route.out.responses) = 1
    /\ route.out.responses[1].assistant_id = "a3"

\* the supported strategy a configured name spells when case is ignored
SpelledStrategy(name) ==
    CASE name \in {"weighted", "Weighted", "WEIGHTED"} -> "weighted"
      [] name \in {"sequential", "Sequential", "SEQUENTIAL"} -> "sequential"
      [] name \in {"parallel", "Parallel", "PARALLEL", "PaRaLLeL"} -> "parallel"
      [] OTHER -> "none"

\* C18: the reported strategy is the supported strategy the configured name
\* spells ignoring case, and weighted for a missing or any other name; it is
\* always one of weighted, sequential, parallel, and the selection is made
\* by the reported strategy
StrategyNameIgnoresCase ==
    route.pc = "done" /\ route.out.outcome = "ok" =>
        LET spelled == SpelledStrategy(route.config.strategy)
            expected == IF spelled = "none" THEN "weighted" ELSE spelled
        IN /\ route.out.strategy = expected
           /\ route.out.strategy \in {"weighted", "sequential", "parallel"}
           /\ Len(route.out.selected) =
                 IF expected = "weighted"
                 THEN Min(EffectiveMaxAssistants, Len(route.out.candidates))
                 ELSE Len(route.out.candidates)

\* "SEQUENTIAL" is routed as sequential, "ROUND_ROBIN" would be weighted:
\* here every one of several candidates answers under the upper-case name
UpperCaseNameRoutedSequential ==
    /\ route.pc = "done" /\ route.out.outcome = "ok"
    /\ route.config.strategy = "SEQUENTIAL"
    /\ route.out.strategy = "sequential"
    /\ route.config.max_assistants = Num(1)
    /\ Len(route.out.selected) = 3

(***************************************************************************)
(* Ingestion: rag_service.process_document and the endpoints calling it    *)
(***************************************************************************)
MaxAttempts == 3

MaxChunks == 2

Docs == {"d1", "d2"}

\* kb.documents, in load order
DocOrder == <<"d1", "d2">>

\* each worker serves one request
Workers == {"w1", "w2"}

Terminal == {"processed", "failed"}

WorkerIdle == [kind |-> "idle", explicit |-> FALSE, targets |-> <<>>, idx |-> 1,
               processed |-> 0, failed |-> 0, log |-> <<>>, pc |-> "idle",
               doc |-> "d1", att |-> 0, embedded |-> 0]

Free(w) == req[w].pc = "idle"

InCall(w) == req[w].pc \in {"extract", "embed", "upsert", "commit"}

NewRequest(kind, explicit, targets) ==
    [WorkerIdle EXCEPT !.kind = kind, !.explicit = explicit, !.targets = targets,
                       !.pc = "next"]

\* an id that names no document
UnknownDoc == "zz"

Exists(d) == d \in Docs /\ status[d] # "absent"

\* knowledge.upload_document -> add_document: a new document, status pending
AddDocument(d, n) ==
    /\ status[d] = "absent"
    /\ status' = [status EXCEPT ![d] = "pending"]
    /\ content' = [content EXCEPT ![d] = n]
    /\ UNCHANGED <<otherVars, tagger, chunker, retr, route, store, req, nAttempts, latest>>

\* knowledge.process_batch up to the processing loop: the documents named by
\* document_ids, or every pending document when document_ids is None
StartKnowledgeBatch(w, document_ids) ==
    /\ Free(w)
    /\ LET explicit == document_ids.kind # "missing"
           target_docs == SelectSeqBy(DocOrder,
               {d \in Docs : /\ status[d] # "absent"
                             /\ IF explicit THEN d \in Range(document_ids.str)
                                ELSE status[d] = "pending"})
       IN req' = [req EXCEPT ![w] = NewRequest("knowledge_batch", explicit, target_docs)]
    /\ UNCHANGED <<otherVars, tagger, chunker, retr, route, status, store, nAttempts, content, latest>>

\* rag.process_batch up to the processing loop: body.document_ids as given
StartRagBatch(w, document_ids) ==
    /\ Free(w)
    /\ \A i \in DOMAIN document_ids : document_ids[i] = UnknownDoc \/ Exists(document_ids[i])
    /\ req' = [req EXCEPT ![w] = NewRequest("rag_batch", TRUE, document_ids)]
    /\ UNCHANGED <<otherVars, tagger, chunker, retr, route, status, store, nAttempts, content, latest>>

\* rag.upload_document_with_ocr up to its process_document call
UploadWithOcr(w, d, n) ==
    /\ Free(w)
    /\ status[d] = "absent"
    /\ status' = [status EXCEPT ![d] = "pending"]
    /\ content' = [content EXCEPT ![d] = n]
    /\ req' = [req EXCEPT ![w] = NewRequest("upload", TRUE, <<d>>)]
    /\ UNCHANGED <<otherVars, tagger, chunker, retr, route, store, nAttempts, latest>>

\* the call of process_document ends: the caller counts it and moves on
Finish(w, outcome, wrote) ==
    [req[w] EXCEPT !.pc = "next", !.idx = @ + 1,
                   !.processed = IF outcome = "ok" THEN @ + 1 ELSE @,
                   !.failed = IF outcome = "ok" THEN @ ELSE @ + 1,
                   !.log = Append(@, [doc |-> req[w].targets[req[w].idx],
                                      outcome |-> outcome, wrote |-> wrote])]

\* process_document: db.get finds nothing, NotFoundError
PDNotFound(w) ==
    /\ req[w].pc = "next"
    /\ req[w].idx <= Len(req[w].targets)
    /\ ~Exists(req[w].targets[req[w].idx])
    /\ req' = [req EXCEPT ![w] = Finish(w, "notfound", "nothing")]
    /\ UNCHANGED <<otherVars, tagger, chunker, retr, route, status, store, nAttempts, content, latest>>

\* process_document: doc.processed_status = "processing"; db.commit()
PDStart(w) ==
    /\ req[w].pc = "next"
    /\ req[w].idx <= Len(req[w].targets)
    /\ nAttempts < MaxAttempts
    /\ LET d == req[w].targets[req[w].idx]
       IN /\ Exists(d)
          /\ status' = [status EXCEPT ![d] = "processing"]
          /\ latest' = [latest EXCEPT ![d] = nAttempts + 1]
          /\ req' = [req EXCEPT ![w] = [@ EXCEPT !.pc = "extract", !.doc = d,
                                           !.att = nAttempts + 1, !.embedded = 0]]
    /\ nAttempts' = nAttempts + 1
    /\ UNCHANGED <<otherVars, tagger, chunker, retr, route, store, content>>

\* extraction and chunking give no chunk: status "processed", return
PDEmptyText(w) ==
    /\ req[w].pc = "extract"
    /\ content[req[w].doc] = 0
    /\ status' = [status EXCEPT ![req[w].doc] = "processed"]
    /\ req' = [req EXCEPT ![w] = Finish(w, "ok", "processed")]
    /\ UNCHANGED <<otherVars, tagger, chunker, retr, route, store, nAttempts, content, latest>>

\* extraction, chunking and tagging of every chunk (generate_tags never raises)
PDExtract(w) ==
    /\ req[w].pc = "extract"
    /\ content[req[w].doc] > 0
    /\ req' = [req EXCEPT ![w] = [@ EXCEPT !.pc = "embed"]]
    /\ UNCHANGED <<otherVars, tagger, chunker, retr, route, status, store, nAttempts, content, latest>>

\* embed_and_store_chunks: embed_text of the next chunk
PDEmbed(w) ==
    /\ req[w].pc = "embed"
    /\ req' = [req EXCEPT ![w] = [@ EXCEPT
                  !.embedded = @ + 1,
                  !.pc = IF req[w].embedded + 1 = content[req[w].doc]
                         THEN "upsert" ELSE "embed"]]
    /\ UNCHANGED <<otherVars, tagger, chunker, retr, route, status, store, nAttempts, content, latest>>

\* the collection of the assistant the documents belong to
CollectionName == "assistant_a1"

\* embed_and_store_chunks: upsert_chunks (get_or_create_collection, then
\* collection.upsert) writes every chunk of the attempt,
\* each under a fresh uuid-based id
PDUpsert(w) ==
    /\ req[w].pc = "upsert"
    /\ store' = store \cup {[doc |-> req[w].doc, att |-> req[w].att, ord |-> i] :
                                i \in 0..(content[req[w].doc] - 1)}
    /\ collections' = collections \cup {CollectionName}
    /\ req' = [req EXCEPT ![w] = [@ EXCEPT !.pc = "commit"]]
    /\ UNCHANGED <<qry, kb, tagger, chunker, retr, route, status, nAttempts, content, latest>>

\* the id an entry is stored under, f"{id_prefix}{uuid.uuid4()}" with
\* id_prefix = f"{doc.id}_": the uuid drawn for chunk `ord` of attempt `att`
\* differs from every uuid drawn before
EntryId(e) == [prefix |-> e.doc, suffix |-> <<"uuid4", e.att, e.ord>>]

\* doc.processed_status = "processed"; db.commit(); return the statistics
PDComplete(w) ==
    /\ req[w].pc = "commit"
    /\ status' = [status EXCEPT ![req[w].doc] = "processed"]
    /\ req' = [req EXCEPT ![w] = Finish(w, "ok", "processed")]
    /\ UNCHANGED <<otherVars, tagger, chunker, retr, route, store, nAttempts, content, latest>>

\* PDFail without the status write of the except branch
PDFailKeepsStatus(w) ==
    /\ req[w].pc \in {"extract", "embed", "upsert"}
    /\ req' = [req EXCEPT ![w] = Finish(w, "raised", "failed")]
    /\ UNCHANGED <<otherVars, tagger, chunker, retr, route, status, store, nAttempts, content, latest>>

\* PDFail with the error leaving the caller's loop: no further document
PDFailEndsBatch(w) ==
    /\ req[w].pc \in {"extract", "embed", "upsert"}
    /\ status' = [status EXCEPT ![req[w].doc] = "failed"]
    /\ req' = [req EXCEPT ![w] = [Finish(w, "raised", "failed") EXCEPT
                                     !.idx = Len(req[w].targets) + 1]]
    /\ UNCHANGED <<otherVars, tagger, chunker, retr, route, store, nAttempts, content, latest>>

\* the except branch: extraction, an embedding call or the vector-index
\* write raised; status "failed", db.commit(), re-raise to the caller, whose
\* own except branch counts the failure and goes on with the next document
PDFail(w) ==
    /\ req[w].pc \in {"extract", "embed", "upsert"}
    /\ status' = [status EXCEPT ![req[w].doc] = "failed"]
    /\ req' = [req EXCEPT ![w] = Finish(w, "raised", "failed")]
    /\ UNCHANGED <<otherVars, tagger, chunker, retr, route, store, nAttempts, content, latest>>

\* the worker is terminated inside the try block: nothing of `except
\* Exception` runs, the status stays as it is
Abandon(w) ==
    /\ InCall(w)
    /\ req' = [req EXCEPT ![w] = [@ EXCEPT !.pc = "abandoned"]]
    /\ UNCHANGED <<otherVars, tagger, chunker, retr, route, status, store, nAttempts, content, latest>>

\* the loop is over: return BatchProcessResponse(processed, failed, ...)
BatchReturn(w) ==
    /\ req[w].pc = "next"
    /\ req[w].idx > Len(req[w].targets)
    /\ req' = [req EXCEPT ![w] = [@ EXCEPT !.pc = "returned"]]
    /\ UNCHANGED <<otherVars, tagger, chunker, retr, route, status, store, nAttempts, content, latest>>

KnowledgeBatchIds ==
    {Missing, Str(<<>>), Str(<<"d1">>), Str(<<"d1", "d2">>)}

RagBatchIds == {<<"d2", "d1">>, <<"d1", "d1">>, <<UnknownDoc, "d2">>}

\* worker w moved in this step
Moved(w) == req'[w] # req[w]

Last(seq) == seq[Len(seq)]

\* C4: a process_document call on an existing document writes "processing"
\* when it starts, writes nothing while it runs, and when it ends writes
\* "processed" if every step succeeded and "failed" if a step raised, hands
\* the error to its caller and does not try the document again
ProcessDocumentEndsTerminal ==
    [][\A w \in Workers :
          /\ req[w].pc = "next" /\ req'[w].pc = "extract" =>
                status'[req'[w].doc] = "processing"
          /\ InCall(w) /\ Moved(w) /\ req'[w].pc \in {"extract", "embed", "upsert", "commit"} =>
                status' = status
          /\ InCall(w) /\ req'[w].pc = "next" =>
                LET d == req[w].doc
                    outcome == Last(req'[w].log).outcome
                    chunks == {[doc |-> d, att |-> req[w].att, ord |-> i] :
                                  i \in 0..(content[d] - 1)}
                IN /\ outcome \in {"ok", "raised"}
                   /\ outcome = "ok" =>
                         /\ status'[d] = "processed"
                         /\ content[d] > 0 =>
                               req[w].embedded = content[d] /\ chunks \subseteq store
                   /\ outcome = "raised" => status'[d] = "failed"
                   /\ req'[w].idx = req[w].idx + 1
                   /\ \A e \in Docs \ {d} : status'[e] = status[e]]_vars

\* a batch in which the first document failed and the second succeeded
FailedThenProcessed ==
    \E w \in Workers :
        /\ Len(req[w].log) = 2
        /\ req[w].log[1].outcome = "raised" /\ status[req[w].log[1].doc] = "failed"
        /\ req[w].log[2].outcome = "ok" /\ status[req[w].log[2].doc] = "processed"

AttemptsInProgress(d) == {w \in Workers : InCall(w) /\ req[w].doc = d}

\* C5: at most one processing attempt per document is in progress
AtMostOneAttemptInProgress ==
    \A d \in Docs : Cardinality(AttemptsInProgress(d)) <= 1

\* C6: a document with status "processed" has every chunk of the attempt
\* started last on it in the vector index
CompletedMeansLatestStored ==
    \A d \in Docs :
        status[d] = "processed" =>
            \A i \in 0..(content[d] - 1) :
                [doc |-> d, att |-> latest[d], ord |-> i] \in store

\* C7: a terminal status changes only in a step of a request that names the
\* document; no step of a batch without document_ids changes one
TerminalChangesOnlyOnExplicitRequest ==
    [][\A d \in Docs :
          status[d] \in Terminal /\ status'[d] # status[d] =>
              \E w \in Workers :
                  Moved(w) /\ req[w].explicit /\ d \in Range(req[w].targets)]_vars

\* the id "{document_id}_{ordinal}"
OrdinalId(d, i) == [prefix |-> d, suffix |-> <<i>>]

EntriesOf(d) == {e \in store : e.doc = d}

\* C13: once a document is processed and no attempt on it is running, the
\* collection holds exactly one entry per chunk ordinal of the document,
\* however many times it was ingested: a later ingestion writes under the
\* ids of the first one and replaces its entries
ReingestReplacesEntries ==
    \A d \in Docs :
        status[d] = "processed" /\ AttemptsInProgress(d) = {} =>
            /\ Cardinality({EntryId(e) : e \in EntriesOf(d)}) = content[d]
            /\ \A i \in 0..(content[d] - 1) :
                  Cardinality({e \in EntriesOf(d) : e.ord = i}) = 1

\* C14: the chunks stored by an attempt have ordinals 0..n-1 and the chunk
\* with ordinal i is stored under the id {document_id}_{i}
StoredUnderOrdinalIds ==
    \A e \in store :
        /\ e.ord \in 0..(content[e.doc] - 1)
        /\ \A i \in 0..(content[e.doc] - 1) :
              [doc |-> e.doc, att |-> e.att, ord |-> i] \in store
        /\ EntryId(e) = OrdinalId(e.doc, e.ord)

Count(seq, outcomes) == Cardinality({i \in DOMAIN seq : seq[i].outcome \in outcomes})

MaxResponseLen == 3

MaxTags == 2

\* tag_text keeps tags[:5]
PipelineMaxTags == 5

TagChars == {"a", "B", ",", " ", "\n"}

Whitespace == {" ", "\n"}

\* the generation call returns a text, or fails (timeout, HTTP error)
Responses ==
    {[kind |-> "raises", raw |-> <<>>]}
        \cup {[kind |-> "text", raw |-> r] :
                 r \in UNION {[1..n -> TagChars] : n \in 0..MaxResponseLen}}

RECURSIVE Strip(_)
\* str.strip()
Strip(cs) ==
    IF cs = <<>> THEN <<>>
    ELSE IF cs[1] \in Whitespace THEN Strip(Tail(cs))
    ELSE IF cs[Len(cs)] \in Whitespace THEN Strip(SubSeq(cs, 1, Len(cs) - 1))
    ELSE cs

\* str.lower()
LowerText(cs) == [i \in DOMAIN cs |-> IF cs[i] = "B" THEN "b" ELSE cs[i]]

RECURSIVE SplitAt(_, _)
\* re.split / str.split on single-character separators: the pieces between
\* separators, empty pieces included
SplitAt(cs, seps) ==
    IF \A i \in DOMAIN cs : cs[i] \notin seps THEN <<cs>>
    ELSE LET k == CHOOSE i \in DOMAIN cs :
                      cs[i] \in seps /\ \A j \in 1..(i - 1) : cs[j] \notin seps
         IN <<SubSeq(cs, 1, k - 1)>> \o SplitAt(SubSeq(cs, k + 1, Len(cs)), seps)

RECURSIVE StrippedLowered(_)
\* [t.strip().lower() for t in pieces if t.strip()]
StrippedLowered(pieces) ==
    IF pieces = <<>> THEN <<>>
    ELSE IF Strip(pieces[1]) = <<>> THEN StrippedLowered(Tail(pieces))
    ELSE <<LowerText(Strip(pieces[1]))>> \o StrippedLowered(Tail(pieces))

\* _parse_tags(raw): split on "," and "\n"
ParseTags(raw) == StrippedLowered(SplitAt(raw, {",", "\n"}))

\* generate_tags(text, n): any exception of the generation call gives []
GenerateTags(response, n) ==
    IF response.kind = "raises"
    THEN [outcome |-> "returned", tags |-> <<>>]
    ELSE [outcome |-> "returned", tags |-> FirstN(ParseTags(response.raw), n)]

\* RAGPipeline.tag_text(text): raw.split(","), no exception handler
TagText(response) ==
    IF response.kind = "raises"
    THEN [outcome |-> "raised", tags |-> <<>>]
    ELSE [outcome |-> "returned",
          tags |-> FirstN(StrippedLowered(SplitAt(response.raw, {","})), PipelineMaxTags)]

TagIdle == [variant |-> "service", caller |-> "ingest",
            response |-> [kind |-> "text", raw |-> <<>>], n |-> 0,
            outcome |-> "none", tags |-> <<>>, op |-> "none", pc |-> "idle"]

\* process_document (per chunk) or query_teammate calls generate_tags
GenerateTagsCall ==
    /\ tagger.pc = "call"
    /\ tagger.variant = "service"
    /\ LET r == GenerateTags(tagger.response, tagger.n)
       IN tagger' = [tagger EXCEPT !.outcome = r.outcome, !.tags = r.tags,
                                   !.pc = "tagged"]
    /\ UNCHANGED <<otherVars, chunker, retr, route, ingestVars>>

\* index_document or RAGPipeline.query calls tag_text
TagTextCall ==
    /\ tagger.pc = "call"
    /\ tagger.variant = "pipeline"
    /\ LET r == TagText(tagger.response)
       IN tagger' = [tagger EXCEPT !.outcome = r.outcome, !.tags = r.tags,
                                   !.pc = "tagged"]
    /\ UNCHANGED <<otherVars, chunker, retr, route, ingestVars>>

\* the caller goes on with the tags: metadata and embedding at ingestion,
\* retrieval at query time
CallerContinues ==
    /\ tagger.pc = "tagged"
    /\ tagger.outcome = "returned"
    /\ tagger' = [tagger EXCEPT !.op = "continues", !.pc = "done"]
    /\ UNCHANGED <<otherVars, chunker, retr, route, ingestVars>>

\* index_document and RAGPipeline.query have no handler around tag_text: the
\* exception ends the ingestion or the query
CallerFails ==
    /\ tagger.pc = "tagged"
    /\ tagger.outcome = "raised"
    /\ tagger' = [tagger EXCEPT !.op = "failed", !.pc = "done"]
    /\ UNCHANGED <<otherVars, chunker, retr, route, ingestVars>>

\* C19: a failed generation call for tagging gives an empty tag list and no
\* error, and the ingestion or query that asked for the tags goes on
TaggingFailureGivesNoTags ==
    tagger.response.kind = "raises" =>
        /\ tagger.pc \in {"tagged", "done"} =>
              tagger.outcome = "returned" /\ tagger.tags = <<>>
        /\ tagger.pc = "done" => tagger.op = "continues"

\* C20: the tags are the pieces of the response between commas and
\* newlines, trimmed, lower-cased, without the empty ones, in response
\* order, cut to at most max_tags
TagsParsedFromResponse ==
    tagger.pc \in {"tagged", "done"} /\ tagger.response.kind = "text" =>
        /\ Len(tagger.tags) <= tagger.n
        /\ \A i \in DOMAIN tagger.tags :
              LET tag == tagger.tags[i]
              IN /\ tag # <<>>
                 /\ tag[1] \notin Whitespace /\ tag[Len(tag)] \notin Whitespace
                 /\ \A k \in DOMAIN tag : tag[k] \notin {"B", ",", "\n"}
        /\ tagger.tags = FirstN(ParseTags(tagger.response.raw), tagger.n)

(***************************************************************************)
(* Querying: the query_teammate endpoint and RAGPipeline.query             *)
(***************************************************************************)
MaxRetrieved == 3

MaxElapsed == 1

\* query_teammate takes inference_mode: Literal["reasoning", "fast"];
\* RAGPipeline.query takes mode: str
ModesOf(variant) ==
    IF variant = "endpoint" THEN {"fast", "reasoning"}
    ELSE {"fast", "reasoning", "deep"}

\* the answer the reasoning model gives over one chunk: nothing, or a text
ChunkAnswers == {"", "A"}

\* the answers of the short-circuit on no chunks
NoInformationAnswer(variant) ==
    IF variant = "endpoint"
    THEN "No relevant information found in the knowledge base."
    ELSE "No relevant documents found in the knowledge base."

\* run_reasoning_inference, imported by the endpoint: one request per chunk,
\* a synthesis request when more than one chunk gave an answer, the single
\* answer when one did, the fixed answer when none did
RunReasoningInference(answers) ==
    LET given == SelectSeq(answers, LAMBDA a : a # "")
    IN [calls |-> Len(answers) + (IF Len(given) > 1 THEN 1 ELSE 0),
        synthesis |-> Len(given) > 1,
        answer |-> IF given = <<>> THEN "No relevant information found"
                   ELSE IF Len(given) = 1 THEN given[1] ELSE "synthesized",
        model_used |-> "REASONING_MODEL"]

\* run_fast_inference, imported by the endpoint: one request over all chunks
RunFastInference(answers) ==
    [calls |-> 1, synthesis |-> FALSE, answer |-> "concise", model_used |-> "FAST_MODEL"]

\* RAGPipeline._infer_reasoning: one request per chunk; the only partial
\* answer when there is one chunk, else one synthesis request
InferReasoning(answers) ==
    [calls |-> Len(answers) + (IF Len(answers) = 1 THEN 0 ELSE 1),
     synthesis |-> Len(answers) # 1,
     answer |-> IF Len(answers) = 1 THEN answers[1] ELSE "synthesized"]

\* RAGPipeline._infer_fast: one request over all chunks
InferFast(answers) == [calls |-> 1, synthesis |-> FALSE, answer |-> "concise"]

\* the result of a query that ended in an error
QueryError(kind) ==
    [outcome |-> kind, answer |-> "", sources |-> 0, model |-> "", elapsed |-> 0,
     calls |-> 0, synthesis |-> FALSE]

\* query_teammate after the assistant is found and the query is tagged:
\* retrieve_chunks, the short-circuit on no chunks, inference by mode
QueryTeammate(q) ==
    IF q.retrieval # "ok" THEN QueryError("retrieval_failed")
    ELSE IF q.answers = <<>> THEN
        [outcome |-> "ok", answer |-> NoInformationAnswer("endpoint"), sources |-> 0,
         model |-> IF q.mode = "reasoning" THEN "REASONING_MODEL" ELSE "FAST_MODEL",
         elapsed |-> 0, calls |-> 0, synthesis |-> FALSE]
    ELSE IF q.inference_fails THEN QueryError("inference_failed")
    ELSE LET r == IF q.mode = "reasoning" THEN RunReasoningInference(q.answers)
                  ELSE RunFastInference(q.answers)
         IN [outcome |-> "ok", answer |-> r.answer, sources |-> Len(q.answers),
             model |-> r.model_used, elapsed |-> q.clock, calls |-> r.calls,
             synthesis |-> r.synthesis]

\* RAGPipeline.query after tag_text: _retrieve, the short-circuit on no
\* chunks, inference by mode; processing_time_ms is read off the clock
PipelineQuery(q) ==
    IF q.retrieval # "ok" THEN QueryError("retrieval_failed")
    ELSE IF q.answers = <<>> THEN
        [outcome |-> "ok", answer |-> NoInformationAnswer("pipeline"), sources |-> 0,
         model |-> IF q.mode = "fast" THEN "OLLAMA_FAST_MODEL"
                   ELSE "OLLAMA_REASONING_MODEL",
         elapsed |-> q.clock, calls |-> 0, synthesis |-> FALSE]
    ELSE IF q.inference_fails THEN QueryError("inference_failed")
    ELSE LET r == IF q.mode = "reasoning" THEN InferReasoning(q.answers)
                  ELSE InferFast(q.answers)
         IN [outcome |-> "ok", answer |-> r.answer, sources |-> Len(q.answers),
             model |-> IF q.mode = "reasoning" THEN "OLLAMA_REASONING_MODEL"
                       ELSE "OLLAMA_FAST_MODEL",
             elapsed |-> q.clock, calls |-> r.calls, synthesis |-> r.synthesis]

\* get_or_create_collection / _get_collection at the start of retrieval: the
\* collection exists afterwards, unless the index could not be reached
CollectionsAfterQuery(q) ==
    IF q.retrieval = "unreachable" THEN collections
    ELSE collections \cup {CollectionName}

QueryIdle == [variant |-> "endpoint", mode |-> "fast", retrieval |-> "ok",
              answers |-> <<>>, inference_fails |-> FALSE, clock |-> 0,
              out |-> QueryError("none"), pc |-> "idle"]

\* POST /teammates/{teammate_id}/query
QueryTeammateCall ==
    /\ qry.pc = "call"
    /\ qry.variant = "endpoint"
    /\ qry' = [qry EXCEPT !.out = QueryTeammate(qry), !.pc = "done"]
    /\ collections' = CollectionsAfterQuery(qry)
    /\ UNCHANGED <<kb, tagger, chunker, retr, route, ingestVars>>

\* RAGPipeline.query(query_text, collection_name, mode)
PipelineQueryCall ==
    /\ qry.pc = "call"
    /\ qry.variant = "pipeline"
    /\ qry' = [qry EXCEPT !.out = PipelineQuery(qry), !.pc = "done"]
    /\ collections' = CollectionsAfterQuery(qry)
    /\ UNCHANGED <<kb, tagger, chunker, retr, route, ingestVars>>

\* retrieval gave no chunk
NoChunks == qry.retrieval = "ok" /\ qry.answers = <<>>

\* C22: when retrieval returns no chunk the query returns the fixed answer,
\* no sources and zero elapsed time and makes no inference request, in
\* fast mode and in reasoning mode alike
EmptyKnowledgeShortCircuit ==
    qry.pc = "done" /\ NoChunks /\ qry.mode \in {"fast", "reasoning"} =>
        /\ qry.out.outcome = "ok"
        /\ qry.out.answer = NoInformationAnswer(qry.variant)
        /\ qry.out.sources = 0
        /\ qry.out.calls = 0
        /\ qry.out.elapsed = 0

\* the chunk-level answers that are not empty
GivenAnswers == SelectSeq(qry.answers, LAMBDA a : a # "")

\* C23: reasoning over n >= 1 chunks makes one request per chunk, plus one
\* synthesis request exactly when more than one chunk gave an answer; one
\* answer is final as it is, no answer gives the fixed string
ReasoningRequestsAndSynthesis ==
    /\ qry.pc = "done" /\ qry.out.outcome = "ok"
    /\ qry.mode = "reasoning" /\ qry.answers # <<>>
    => /\ qry.out.synthesis <=> Len(GivenAnswers) > 1
       /\ qry.out.calls = Len(qry.answers) + (IF Len(GivenAnswers) > 1 THEN 1 ELSE 0)
       /\ Len(GivenAnswers) = 1 => qry.out.answer = GivenAnswers[1]
       /\ Len(GivenAnswers) = 0 =>
             qry.out.answer \in {"No relevant information found",
                                 NoInformationAnswer(qry.variant)}

\* C24: a query, however it ends, leaves every document status, the set of
\* collections and the stored chunks as they were
QueryChangesNoPersistedState ==
    [][qry' # qry => /\ status' = status
                     /\ store' = store
                     /\ collections' = collections]_vars

\* the model the query reports when it answers from chunks, by mode
ModelReportedWithChunks(variant, mode) ==
    IF variant = "endpoint"
    THEN (IF mode = "reasoning" THEN RunReasoningInference(<<"A">>).model_used
          ELSE RunFastInference(<<"A">>).model_used)
    ELSE PipelineQuery([qry EXCEPT !.retrieval = "ok", !.answers = <<"A">>,
                                   !.inference_fails = FALSE, !.mode = mode]).model

\* C26: the model the short-circuit reports is the model the same query
\* reports when retrieval returns a chunk, for every accepted mode
ShortCircuitReportsSameModel ==
    qry.pc = "done" /\ NoChunks =>
        qry.out.model = ModelReportedWithChunks(qry.variant, qry.mode)

(***************************************************************************)
(* Knowledge bases: rag_service.create_knowledge_base                      *)
(***************************************************************************)
\* upload requests, each served by its own worker thread and session
Uploads == {"u1", "u2", "u3"}

KbAssistants == {"a1", "a2"}

NoRow == [id |-> "none", assistant_id |-> "none"]

UploadIdle == [pc |-> "idle", assistant_id |-> "a1", existing |-> NoRow, result |-> NoRow]

KbIdle == [rows |-> {}, call |-> [u \in Uploads |-> UploadIdle]]

\* db.query(KnowledgeBase).filter(assistant_id == ...).first(): a row of the
\* assistant, NoRow when it has none
FirstRowOf(rows, assistant_id) ==
    IF \E r \in rows : r.assistant_id = assistant_id
    THEN CHOOSE r \in rows : r.assistant_id = assistant_id
    ELSE NoRow

\* upload_document calls create_knowledge_base: get_assistant, then the
\* query for an existing knowledge base
KbLookup(u, a) ==
    /\ kb.call[u].pc = "idle"
    /\ kb' = [kb EXCEPT !.call[u] = [@ EXCEPT !.pc = "looked", !.assistant_id = a,
                                                !.existing = FirstRowOf(kb.rows, a)]]
    /\ UNCHANGED <<qry, collections, tagger, chunker, retr, route, ingestVars>>

\* `if existing: return existing`
KbReturnExisting(u) ==
    /\ kb.call[u].pc = "looked"
    /\ kb.call[u].existing # NoRow
    /\ kb' = [kb EXCEPT !.call[u] = [@ EXCEPT !.pc = "done",
                                                !.result = kb.call[u].existing]]
    /\ UNCHANGED <<qry, collections, tagger, chunker, retr, route, ingestVars>>

\* kb = KnowledgeBase(...); db.add(kb); db.commit(); db.refresh(kb): a new
\* row under a fresh uuid; the table has no unique constraint on assistant_id
KbInsert(u) ==
    /\ kb.call[u].pc = "looked"
    /\ kb.call[u].existing = NoRow
    /\ LET row == [id |-> u, assistant_id |-> kb.call[u].assistant_id]
       IN kb' = [kb EXCEPT !.rows = @ \cup {row},
                           !.call[u] = [@ EXCEPT !.pc = "done", !.result = row]]
    /\ UNCHANGED <<qry, collections, tagger, chunker, retr, route, ingestVars>>

\* C30: at most one knowledge base per assistant, and a call for an
\* assistant that has one returns it and adds no row
OneKnowledgeBasePerAssistant ==
    /\ \A a \in KbAssistants :
          Cardinality({r \in kb.rows : r.assistant_id = a}) <= 1
    /\ \A u \in Uploads :
          kb.call[u].pc = "done" => kb.call[u].result.assistant_id = kb.call[u].assistant_id

(***************************************************************************)
(* Specifications                                                          *)
(***************************************************************************)
\* no query, no create_knowledge_base call, no collection
QueryKbIdle ==
    /\ qry = QueryIdle
    /\ kb = KbIdle
    /\ collections = {}

IngestIdle ==
    /\ status = [d \in Docs |-> "absent"]
    /\ store = {}
    /\ req = [w \in Workers |-> WorkerIdle]
    /\ nAttempts = 0
    /\ content = [d \in Docs |-> 0]
    /\ latest = [d \in Docs |-> 0]

\* a tagging call about to be made: generate_tags with n tags asked for, or
\* tag_text with its fixed five
InitTag ==
    /\ chunker = ChunkIdle
    /\ retr = RetrIdle
    /\ route = RouteIdle
    /\ IngestIdle
    /\ QueryKbIdle
    /\ \E v \in {"service", "pipeline"}, c \in {"ingest", "query"}, r \in Responses,
          n \in 0..MaxTags :
          tagger = [TagIdle EXCEPT !.variant = v, !.caller = c, !.response = r,
                                   !.n = IF v = "pipeline" THEN PipelineMaxTags ELSE n,
                                   !.pc = "call"]

NextTag ==
    \/ GenerateTagsCall
    \/ TagTextCall
    \/ CallerContinues
    \/ CallerFails

SpecTag == InitTag /\ [][NextTag]_vars

Init ==
    /\ chunker = ChunkIdle
    /\ retr = RetrIdle
    /\ route = RouteIdle
    /\ IngestIdle
    /\ tagger = TagIdle
    /\ QueryKbIdle

Next ==
    \/ \E d \in Docs, n \in 0..MaxChunks : AddDocument(d, n)
    \/ \E w \in Workers, ids \in KnowledgeBatchIds : StartKnowledgeBatch(w, ids)
    \/ \E w \in Workers, ids \in RagBatchIds : StartRagBatch(w, ids)
    \/ \E w \in Workers, d \in Docs, n \in 0..MaxChunks : UploadWithOcr(w, d, n)
    \/ \E w \in Workers : PDNotFound(w)
    \/ \E w \in Workers : PDStart(w)
    \/ \E w \in Workers : PDEmptyText(w)
    \/ \E w \in Workers : PDExtract(w)
    \/ \E w \in Workers : PDEmbed(w)
    \/ \E w \in Workers : PDUpsert(w)
    \/ \E w \in Workers : PDComplete(w)
    \/ \E w \in Workers : PDFail(w)
    \/ \E w \in Workers : Abandon(w)
    \/ \E w \in Workers : BatchReturn(w)

Spec == Init /\ [][Next]_vars

InitChunk ==
    /\ \E v \in ChunkVariants, t \in Texts, sz \in 1..MaxSize, ov \in 0..(MaxSize - 1) :
          /\ ov < sz
          /\ chunker = [variant |-> v, text |-> t, size |-> sz, overlap |-> ov,
                        start |-> 0, chunks |-> <<>>, pc |-> "call"]
    /\ retr = RetrIdle
    /\ route = RouteIdle
    /\ IngestIdle
    /\ tagger = TagIdle
    /\ QueryKbIdle

NextChunk ==
    \/ ChunkEnter
    \/ ChunkLoopService
    \/ ChunkLoopPipeline
    \/ ChunkWhileExit

SpecChunk == InitChunk /\ [][NextChunk]_vars

\* a call of chunk_text runs on one thread until it returns
SpecChunkFair == SpecChunk /\ WF_vars(NextChunk)

\* CHUNK_SIZE and CHUNK_OVERLAP as found in the environment
InitConfig ==
    /\ \E v \in ChunkVariants, t \in Texts, sz \in 1..MaxSize, ov \in (-1)..MaxSize :
          chunker = [variant |-> v, text |-> t, size |-> sz, overlap |-> ov,
                     start |-> 0, chunks |-> <<>>, pc |-> "load"]
    /\ retr = RetrIdle
    /\ route = RouteIdle
    /\ IngestIdle
    /\ tagger = TagIdle
    /\ QueryKbIdle

NextConfig ==
    \/ LoadSettings
    \/ ChunkEnter
    \/ ChunkLoopService
    \/ ChunkLoopPipeline
    \/ ChunkWhileExit

SpecConfig == InitConfig /\ [][NextConfig]_vars

\* a query about to run against an index that holds the chunks of document
\* d1 (processed), or nothing at all; what retrieval and inference will do
InitQuery ==
    /\ chunker = ChunkIdle
    /\ retr = RetrIdle
    /\ route = RouteIdle
    /\ tagger = TagIdle
    /\ kb = KbIdle
    /\ req = [w \in Workers |-> WorkerIdle]
    /\ \E n \in 0..MaxRetrieved, exists \in BOOLEAN :
          /\ n > 0 => exists
          /\ store = {[doc |-> "d1", att |-> 1, ord |-> i] : i \in 0..(n - 1)}
          /\ collections = IF exists THEN {CollectionName} ELSE {}
          /\ status = [d \in Docs |-> IF d = "d1" /\ exists THEN "processed" ELSE "absent"]
          /\ content = [d \in Docs |-> IF d = "d1" THEN n ELSE 0]
          /\ latest = [d \in Docs |-> IF d = "d1" /\ exists THEN 1 ELSE 0]
          /\ nAttempts = IF exists THEN 1 ELSE 0
          /\ \E v \in {"endpoint", "pipeline"}, r \in {"ok", "unreachable", "failed"},
                f \in BOOLEAN, c \in 0..MaxElapsed :
                \E m \in ModesOf(v), a \in UNION {[1..k -> ChunkAnswers] : k \in 0..n} :
                    qry = [QueryIdle EXCEPT !.variant = v, !.mode = m, !.retrieval = r,
                                            !.answers = a, !.inference_fails = f,
                                            !.clock = c, !.pc = "call"]

NextQuery ==
    \/ QueryTeammateCall
    \/ PipelineQueryCall

SpecQuery == InitQuery /\ [][NextQuery]_vars

InitKb ==
    /\ chunker = ChunkIdle
    /\ retr = RetrIdle
    /\ route = RouteIdle
    /\ tagger = TagIdle
    /\ IngestIdle
    /\ QueryKbIdle

NextKb ==
    \/ \E u \in Uploads, a \in KbAssistants : KbLookup(u, a)
    \/ \E u \in Uploads : KbReturnExisting(u)
    \/ \E u \in Uploads : KbInsert(u)

SpecKb == InitKb /\ [][NextKb]_vars

InitRetrieve ==
    /\ chunker = ChunkIdle
    /\ \E v \in {"service", "pipeline"}, c \in Collections, q \in QueryTags,
          k \in 1..MaxTopK, r \in BOOLEAN :
          retr = [variant |-> v, coll |-> c, qtags |-> q, k |-> k, raises |-> r,
                  result |-> <<>>, pc |-> "call"]
    /\ route = RouteIdle
    /\ IngestIdle
    /\ tagger = TagIdle
    /\ QueryKbIdle

NextRetrieve ==
    \/ RetrieveChunksCall
    \/ PipelineRetrieveCall

SpecRetrieve == InitRetrieve /\ [][NextRetrieve]_vars

InitRoute ==
    /\ chunker = ChunkIdle
    /\ retr = RetrIdle
    /\ \E e \in BOOLEAN, t \in Teammates, st \in StrategyNames,
          ids \in AssistantIdLists, w \in WeightMaps, wn \in NameWeightMaps,
          m \in MaxAssistantsValues, qt \in Queries :
          /\ ~e => t = <<>>
          /\ route = [exists |-> e, assistants |-> t, query |-> qt,
                      config |-> [strategy |-> st, assistant_ids |-> ids, weights |-> w,
                                  weights_by_name |-> wn, max_assistants |-> m],
                      out |-> [outcome |-> "none"], pc |-> "call"]
    /\ IngestIdle
    /\ tagger = TagIdle
    /\ QueryKbIdle

NextRoute == RunQuery

SpecRoute == InitRoute /\ [][NextRoute]_vars

====
